---- MODULE Spec2Model ----
(***************************************************************************)
(* Aether Weather: the location and weather resolution pipeline            *)
(* (services/geminiService: searchCity, getWeatherData, getDeepAnalysis,   *)
(* getQuickSummary) and the App component that drives it (fetchWeather,    *)
(* handleDeepAnalysis, handleGeoLocation, the initial-load effect).        *)
(*                                                                         *)
(* Text that is parsed by the program (location inputs, place names) is a  *)
(* sequence of one-character strings, so that trimming, splitting,        *)
(* number parsing and substring search are computed on it.                 *)
(***************************************************************************)
EXTENDS Integers, Sequences, FiniteSets, TLC

(***************************************************************************)
(* Bounds                                                                  *)
(***************************************************************************)
\* longest location input enumerated for a single getWeatherData call
MaxInputLen == 4
\* longest hourly series the forecast provider returns
MaxHourlyLen == 26
\* longest daily series the forecast provider returns
MaxDailyLen == 6
\* how many trailing elements a value array may lack against its time axis
MaxMissing == 1
\* clicks that ask for another location in one run of the App: on a
\* suggestion, on a saved place or on "use current location"
MaxClicks == 1

(***************************************************************************)
(* Text                                                                    *)
(***************************************************************************)
Digits == {"0", "1", "2", "3", "4", "5", "6", "7", "8", "9"}

DigitValue(c) ==
    CASE c = "0" -> 0 [] c = "1" -> 1 [] c = "2" -> 2 [] c = "3" -> 3
      [] c = "4" -> 4 [] c = "5" -> 5 [] c = "6" -> 6 [] c = "7" -> 7
      [] c = "8" -> 8 [] c = "9" -> 9

WhiteSpace == {" "}

\* String.prototype.includes for a one-character needle
includes(s, c) == \E i \in 1..Len(s) : s[i] = c

RECURSIVE trimStart(_)
trimStart(s) ==
    IF s # <<>> /\ Head(s) \in WhiteSpace THEN trimStart(Tail(s)) ELSE s

RECURSIVE trimEnd(_)
trimEnd(s) ==
    IF s # <<>> /\ s[Len(s)] \in WhiteSpace
    THEN trimEnd(SubSeq(s, 1, Len(s) - 1))
    ELSE s

\* String.prototype.trim
trim(s) == trimEnd(trimStart(s))

\* String.prototype.split for a one-character separator
RECURSIVE split(_, _)
split(s, sep) ==
    IF includes(s, sep)
    THEN LET i == CHOOSE k \in 1..Len(s) :
                      s[k] = sep /\ \A j \in 1..(k - 1) : s[j] # sep
         IN  <<SubSeq(s, 1, i - 1)>> \o split(SubSeq(s, i + 1, Len(s)), sep)
    ELSE <<s>>

RECURSIVE DigitPrefixLen(_)
DigitPrefixLen(s) ==
    IF s = <<>> \/ Head(s) \notin Digits THEN 0
    ELSE 1 + DigitPrefixLen(Tail(s))

RECURSIVE DigitsToInt(_)
DigitsToInt(ds) ==
    IF ds = <<>> THEN 0
    ELSE 10 * DigitsToInt(SubSeq(ds, 1, Len(ds) - 1)) + DigitValue(ds[Len(ds)])

(***************************************************************************)
(* Numbers parsed from text.  A number is its sign, its integer part and   *)
(* its fraction digits without trailing zeros, so that equal numbers are   *)
(* equal records ("1.50" and "1.5", "-0" and "0").                         *)
(***************************************************************************)
RECURSIVE stripZeros(_)
stripZeros(ds) ==
    IF ds # <<>> /\ ds[Len(ds)] = "0"
    THEN stripZeros(SubSeq(ds, 1, Len(ds) - 1))
    ELSE ds

NaN == [nan |-> TRUE, neg |-> FALSE, int |-> 0, frac |-> <<>>]
Num(neg, int, frac) ==
    LET f == stripZeros(frac)
    IN  [nan |-> FALSE, neg |-> neg /\ (int # 0 \/ f # <<>>),
         int |-> int, frac |-> f]
isNaN(x) == x.nan

\* Global parseFloat: skips leading white space, then reads the LONGEST
\* PREFIX that is a decimal literal (sign, digits, optional fraction) and
\* ignores whatever follows it; NaN when no such prefix exists.  Exponents
\* and "Infinity" are not produced by the inputs enumerated here.
parseFloat(str) ==
    LET t      == trimStart(str)
        signed == t # <<>> /\ Head(t) \in {"+", "-"}
        neg    == t # <<>> /\ Head(t) = "-"
        u      == IF signed THEN Tail(t) ELSE t
        n      == DigitPrefixLen(u)
        rest   == SubSeq(u, n + 1, Len(u))
        hasDot == rest # <<>> /\ Head(rest) = "."
        m      == IF hasDot THEN DigitPrefixLen(Tail(rest)) ELSE 0
    IN  IF n > 0 \/ (hasDot /\ m > 0)
        THEN Num(neg, DigitsToInt(SubSeq(u, 1, n)),
                 IF hasDot THEN SubSeq(Tail(rest), 1, m) ELSE <<>>)
        ELSE NaN

(***************************************************************************)
(* Geocoding: searchCity                                                   *)
(***************************************************************************)
\* items of the geocoding provider's "results" array
ItemTokyo   == [name |-> <<"T", "o", "k", "y", "o">>, admin1 |-> <<"T", "o", "k", "y", "o">>, country |-> <<"J", "a", "p", "a", "n">>,
                latitude |-> Num(FALSE, 35, <<"6">>),
                longitude |-> Num(FALSE, 139, <<"6">>)]
ItemParisFR == [name |-> <<"P", "a", "r", "i", "s">>, admin1 |-> <<>>, country |-> <<"F", "r", "a", "n", "c", "e">>,
                latitude |-> Num(FALSE, 48, <<"8">>),
                longitude |-> Num(FALSE, 2, <<"3">>)]
ItemParisTX == [name |-> <<"P", "a", "r", "i", "s">>, admin1 |-> <<"T", "e", "x", "a", "s">>, country |-> <<"U", "S">>,
                latitude |-> Num(FALSE, 33, <<"6">>),
                longitude |-> Num(TRUE, 95, <<"5">>)]
ItemNewYork == [name |-> <<"N", "e", "w", " ", "Y", "o", "r", "k">>, admin1 |-> <<"N", "e", "w", " ", "Y", "o", "r", "k">>,
                country |-> <<"U", "S">>,
                latitude |-> Num(FALSE, 40, <<"7">>),
                longitude |-> Num(TRUE, 74, <<>>)]

\* what the geocoding endpoint can answer: the request or the body parse
\* throws, the body has no "results" member, or it has a results array
GeoThrow == [kind |-> "throw", hasResults |-> FALSE, results |-> <<>>]
GeoBody(hasResults, results) ==
    [kind |-> "json", hasResults |-> hasResults, results |-> results]
GeoResponses ==
    {GeoThrow, GeoBody(FALSE, <<>>), GeoBody(TRUE, <<>>),
     GeoBody(TRUE, <<ItemTokyo>>), GeoBody(TRUE, <<ItemParisFR, ItemParisTX>>),
     GeoBody(TRUE, <<ItemNewYork>>)}

\* searchCity line 32: the guard that returns [] before any request is made
searchCitySendsRequest(query) == ~(Len(query) < 2)

\* searchCity lines 41-46: one CitySearchResult per provider item
toCitySearchResult(item) ==
    [name     |-> item.name,
     location |-> item.admin1 \o <<",", " ">> \o item.country,
     lat      |-> item.latitude,
     lng      |-> item.longitude]

\* searchCity: the candidate list for a query, given the provider's answer
searchCity(query, resp) ==
    IF ~searchCitySendsRequest(query) THEN <<>>
    ELSE IF resp.kind = "throw" THEN <<>>
    ELSE IF ~resp.hasResults THEN <<>>
    ELSE [i \in 1..Len(resp.results) |-> toCitySearchResult(resp.results[i])]

(***************************************************************************)
(* getWeatherData, step 1: determine coordinates                           *)
(***************************************************************************)
CurrentLocation == <<"C", "u", "r", "r", "e", "n", "t", " ", "L", "o", "c", "a", "t", "i", "o", "n">>

\* line 63: locationInput.split(',').map(s => s.trim())
locationParts(locationInput) ==
    LET raw == split(locationInput, ",")
    IN  [i \in 1..Len(raw) |-> trim(raw[i])]

\* lines 62-64: the test that selects the coordinate-pair branch
isCoordinatePair(locationInput) ==
    /\ includes(locationInput, ",")
    /\ ~isNaN(parseFloat(locationParts(locationInput)[1]))
    /\ ~isNaN(parseFloat(locationParts(locationInput)[2]))

\* lines 66-67 with the two parts exchanged
coordinateLocationSwapped(locationInput) ==
    [lat     |-> parseFloat(locationParts(locationInput)[2]),
     lng     |-> parseFloat(locationParts(locationInput)[1]),
     city    |-> CurrentLocation,
     country |-> <<>>]

\* lines 66-73: the location taken from a coordinate pair
coordinateLocation(locationInput) ==
    [lat     |-> parseFloat(locationParts(locationInput)[1]),
     lng     |-> parseFloat(locationParts(locationInput)[2]),
     city    |-> CurrentLocation,
     country |-> <<>>]

\* lines 78-81 and 87-90: the location taken from the first candidate
candidateLocation(searchRes) ==
    [lat     |-> searchRes[1].lat,
     lng     |-> searchRes[1].lng,
     city    |-> searchRes[1].name,
     country |-> searchRes[1].location]

(***************************************************************************)
(* Condition labels: wmoToCondition                                        *)
(***************************************************************************)
\* a value read from the provider payload: a number, or undefined when the
\* element or member does not exist
Undefined == [undef |-> TRUE, v |-> 0]
Def(v) == [undef |-> FALSE, v |-> v]

\* JavaScript array element access, index counted from 0
at(arr, i) == IF i >= 0 /\ i < Len(arr) THEN Def(arr[i + 1]) ELSE Undefined

WmoCodes == {0, 1, 2, 3, 45, 48, 51, 53, 55, 56, 57, 61, 63, 65, 66, 67,
             71, 73, 75, 77, 80, 81, 82, 85, 86, 95, 96, 99}

wmoMap(code) ==
    CASE code = 0  -> <<"C", "l", "e", "a", "r", " ", "S", "k", "y">>
      [] code = 1  -> <<"M", "a", "i", "n", "l", "y", " ", "C", "l", "e", "a", "r">>
      [] code = 2  -> <<"P", "a", "r", "t", "l", "y", " ", "C", "l", "o", "u", "d", "y">>
      [] code = 3  -> <<"O", "v", "e", "r", "c", "a", "s", "t">>
      [] code = 45 -> <<"F", "o", "g">>
      [] code = 48 -> <<"D", "e", "p", "o", "s", "i", "t", "i", "n", "g", " ", "R", "i", "m", "e", " ", "F", "o", "g">>
      [] code = 51 -> <<"L", "i", "g", "h", "t", " ", "D", "r", "i", "z", "z", "l", "e">>
      [] code = 53 -> <<"M", "o", "d", "e", "r", "a", "t", "e", " ", "D", "r", "i", "z", "z", "l", "e">>
      [] code = 55 -> <<"D", "e", "n", "s", "e", " ", "D", "r", "i", "z", "z", "l", "e">>
      [] code = 56 -> <<"L", "i", "g", "h", "t", " ", "F", "r", "e", "e", "z", "i", "n", "g", " ", "D", "r", "i", "z", "z", "l", "e">>
      [] code = 57 -> <<"D", "e", "n", "s", "e", " ", "F", "r", "e", "e", "z", "i", "n", "g", " ", "D", "r", "i", "z", "z", "l", "e">>
      [] code = 61 -> <<"S", "l", "i", "g", "h", "t", " ", "R", "a", "i", "n">>
      [] code = 63 -> <<"M", "o", "d", "e", "r", "a", "t", "e", " ", "R", "a", "i", "n">>
      [] code = 65 -> <<"H", "e", "a", "v", "y", " ", "R", "a", "i", "n">>
      [] code = 66 -> <<"L", "i", "g", "h", "t", " ", "F", "r", "e", "e", "z", "i", "n", "g", " ", "R", "a", "i", "n">>
      [] code = 67 -> <<"H", "e", "a", "v", "y", " ", "F", "r", "e", "e", "z", "i", "n", "g", " ", "R", "a", "i", "n">>
      [] code = 71 -> <<"S", "l", "i", "g", "h", "t", " ", "S", "n", "o", "w">>
      [] code = 73 -> <<"M", "o", "d", "e", "r", "a", "t", "e", " ", "S", "n", "o", "w">>
      [] code = 75 -> <<"H", "e", "a", "v", "y", " ", "S", "n", "o", "w">>
      [] code = 77 -> <<"S", "n", "o", "w", " ", "G", "r", "a", "i", "n", "s">>
      [] code = 80 -> <<"S", "l", "i", "g", "h", "t", " ", "R", "a", "i", "n", " ", "S", "h", "o", "w", "e", "r", "s">>
      [] code = 81 -> <<"M", "o", "d", "e", "r", "a", "t", "e", " ", "R", "a", "i", "n", " ", "S", "h", "o", "w", "e", "r", "s">>
      [] code = 82 -> <<"V", "i", "o", "l", "e", "n", "t", " ", "R", "a", "i", "n", " ", "S", "h", "o", "w", "e", "r", "s">>
      [] code = 85 -> <<"S", "l", "i", "g", "h", "t", " ", "S", "n", "o", "w", " ", "S", "h", "o", "w", "e", "r", "s">>
      [] code = 86 -> <<"H", "e", "a", "v", "y", " ", "S", "n", "o", "w", " ", "S", "h", "o", "w", "e", "r", "s">>
      [] code = 95 -> <<"T", "h", "u", "n", "d", "e", "r", "s", "t", "o", "r", "m">>
      [] code = 96 -> <<"T", "h", "u", "n", "d", "e", "r", "s", "t", "o", "r", "m", " ", "w", "i", "t", "h", " ", "H", "a", "i", "l">>
      [] code = 99 -> <<"H", "e", "a", "v", "y", " ", "T", "h", "u", "n", "d", "e", "r", "s", "t", "o", "r", "m", " ", "w", "i", "t", "h", " ", "H", "a", "i", "l">>

Unknown == <<"U", "n", "k", "n", "o", "w", "n">>

\* (code && map[code]) || "Unknown": code 0 taken as falsy
wmoToConditionFalsyZero(code) ==
    IF ~code.undef /\ code.v # 0 /\ code.v \in WmoCodes
    THEN wmoMap(code.v) ELSE Unknown

\* map[code] || "Unknown"; the argument is a payload value
wmoToCondition(code) ==
    IF ~code.undef /\ code.v \in WmoCodes THEN wmoMap(code.v) ELSE Unknown

(***************************************************************************)
(* getWeatherData, step 3: map the payload to WeatherData                  *)
(* Payload numbers are in tenths (215 is 21.5).                            *)
(***************************************************************************)
\* line 119: the hourly loop runs over 24 indices
HourlyWindow == 24
\* line 133: the daily loop runs over 5 indices
DailyCount == 5

RoundNaN == [nan |-> TRUE, n |-> 0]
\* Math.round of a payload value: nearest integer, halves towards +infinity;
\* Math.round(undefined) is NaN
MathRound(x) ==
    IF x.undef THEN RoundNaN ELSE [nan |-> FALSE, n |-> (x.v + 5) \div 10]

InvalidDate == [valid |-> FALSE, hour |-> 0, minute |-> 0, period |-> "", weekday |-> ""]

\* new Date(iso).toLocaleTimeString([], {hour: 'numeric'}) in an en-US host:
\* the hour of the day on the 12-hour clock; "Invalid Date" for undefined
hourLabel(t) ==
    IF t.undef THEN InvalidDate
    ELSE [valid |-> TRUE,
          hour |-> IF t.v.hour % 12 = 0 THEN 12 ELSE t.v.hour % 12,
          minute |-> 0,
          period |-> IF t.v.hour < 12 THEN "AM" ELSE "PM", weekday |-> ""]

\* new Date(iso).toLocaleTimeString([], {hour: '2-digit', minute: '2-digit'})
clockLabel(t) ==
    IF t.undef THEN InvalidDate
    ELSE [valid |-> TRUE,
          hour |-> IF t.v.hour % 12 = 0 THEN 12 ELSE t.v.hour % 12,
          minute |-> t.v.minute,
          period |-> IF t.v.hour < 12 THEN "AM" ELSE "PM", weekday |-> ""]

Weekdays == <<"Sun", "Mon", "Tue", "Wed", "Thu", "Fri", "Sat">>

\* new Date("YYYY-MM-DD").toLocaleDateString('en-US', {weekday: 'short'}):
\* a date-only string is midnight UTC, shown in the viewer's zone, which is
\* the previous day when the viewer is west of UTC
weekdayLabel(d, viewerWestOfUTC) ==
    IF d.undef THEN InvalidDate
    ELSE [valid |-> TRUE, hour |-> 0, minute |-> 0, period |-> "",
          weekday |-> Weekdays[((d.v.weekday + (IF viewerWestOfUTC THEN 6 ELSE 0)) % 7) + 1]]

\* lines 119-120: the indices i of the loop for which hourly.time[i] is
\* truthy (an ISO string is truthy, a missing element is undefined)
hourlyIndices(hourly, currentHourIndex) ==
    SelectSeq([k \in 1..HourlyWindow |-> currentHourIndex + k - 1],
              LAMBDA i : ~at(hourly.time, i).undef)

\* lines 118-127
hourlyForecast(hourly, currentHourIndex) ==
    LET idx == hourlyIndices(hourly, currentHourIndex)
    IN  [j \in 1..Len(idx) |->
            [time |-> hourLabel(at(hourly.time, idx[j])),
             temp |-> MathRound(at(hourly.temperature_2m, idx[j]))]]

\* lines 121 and 124: the element reads that build the hourly entries
hourlyElementReads(hourly, currentHourIndex) ==
    LET idx == hourlyIndices(hourly, currentHourIndex)
    IN  {<<"time", idx[j]>> : j \in 1..Len(idx)}
          \cup {<<"temperature_2m", idx[j]>> : j \in 1..Len(idx)}

\* lines 132-141 with the loop starting at tomorrow (let i = 1; i < 6)
dailyForecastFromTomorrow(daily, viewerWestOfUTC) ==
    [k \in 1..DailyCount |->
        [day       |-> weekdayLabel(at(daily.time, k), viewerWestOfUTC),
         high      |-> MathRound(at(daily.temperature_2m_max, k)),
         low       |-> MathRound(at(daily.temperature_2m_min, k)),
         condition |-> wmoToCondition(at(daily.weather_code, k))]]

\* lines 132-141: entry k of the result is built from index k - 1
dailyForecast(daily, viewerWestOfUTC) ==
    [k \in 1..DailyCount |->
        [day       |-> weekdayLabel(at(daily.time, k - 1), viewerWestOfUTC),
         high      |-> MathRound(at(daily.temperature_2m_max, k - 1)),
         low       |-> MathRound(at(daily.temperature_2m_min, k - 1)),
         condition |-> wmoToCondition(at(daily.weather_code, k - 1))]]

GroundingSource == "Open-Meteo (National Weather Services)"

\* lines 112-162: the WeatherData built from a payload
toWeatherData(loc, data, currentHourIndex, viewerWestOfUTC) ==
    [city        |-> loc.city,
     country     |-> loc.country,
     currentTemp |-> MathRound(Def(data.current.temperature_2m)),
     condition   |-> wmoToCondition(Def(data.current.weather_code)),
     feelsLike   |-> MathRound(Def(data.current.apparent_temperature)),
     humidity    |-> data.current.relative_humidity_2m,
     windSpeed   |-> MathRound(Def(data.current.wind_speed_10m)),
     pressure    |-> MathRound(Def(data.current.surface_pressure)),
     uvIndex     |-> MathRound(at(data.daily.uv_index_max, 0)),
     sunrise     |-> clockLabel(at(data.daily.sunrise, 0)),
     sunset      |-> clockLabel(at(data.daily.sunset, 0)),
     hourly      |-> hourlyForecast(data.hourly, currentHourIndex),
     daily       |-> dailyForecast(data.daily, viewerWestOfUTC),
     groundingSource |-> GroundingSource]

(***************************************************************************)
(* Forecast provider payloads                                              *)
(***************************************************************************)
Max2(a, b) == IF a >= b THEN a ELSE b
Min2(a, b) == IF a <= b THEN a ELSE b

\* weather codes of the payloads: every code of the WMO table and codes that
\* are not in it
SampleCodes ==
    <<0, 65, 95, 3, 4, 1, 2, 45, 48, 51, 53, 55, 56, 57, 61, 63, 66, 67, 71,
      73, 75, 77, 80, 81, 82, 85, 86, 96, 99, 100, -1>>

\* a payload with an hourly time axis of n entries and a daily time axis of
\* d entries; the value arrays lack their last hm (hourly) and dm (daily)
\* elements.  Temperatures are in tenths and cover negatives and halves.
Payload(n, hm, d, dm) ==
    [current |->
        [temperature_2m       |-> 10 * n + 5 - 20 * d,
         relative_humidity_2m |-> 600 + n,
         apparent_temperature |-> 10 * n - 15 * d - 6,
         weather_code         |-> SampleCodes[((n + d) % Len(SampleCodes)) + 1],
         surface_pressure     |-> 10132 + n,
         wind_speed_10m       |-> 74 + d],
     hourly |->
        [time           |-> [i \in 1..n |->
                                [day |-> (i - 1) \div 24, hour |-> (i - 1) % 24]],
         temperature_2m |-> [i \in 1..Max2(0, n - hm) |-> ((i * 13) % 61) - 30]],
     daily |->
        [time               |-> [i \in 1..d |-> [weekday |-> (i + 2) % 7]],
         weather_code       |-> [i \in 1..Max2(0, d - dm) |->
                                    SampleCodes[((i + n) % Len(SampleCodes)) + 1]],
         temperature_2m_max |-> [i \in 1..Max2(0, d - dm) |-> 200 + 15 * i],
         temperature_2m_min |-> [i \in 1..Max2(0, d - dm) |-> 45 - 15 * i],
         sunrise            |-> [i \in 1..Max2(0, d - dm) |-> [hour |-> 6, minute |-> 30 + i]],
         sunset             |-> [i \in 1..Max2(0, d - dm) |-> [hour |-> 18, minute |-> 10 + i]],
         uv_index_max       |-> [i \in 1..Max2(0, d - dm) |-> 40 + 5 * i]]]

\* every hourly shape with a full daily series, and every daily shape with
\* a full hourly series
Payloads ==
    {Payload(n, hm, MaxDailyLen, 0) : n \in 0..MaxHourlyLen, hm \in 0..MaxMissing}
      \cup {Payload(MaxHourlyLen, 0, d, dm) : d \in 0..MaxDailyLen,
                                              dm \in 0..MaxMissing}

DefaultPayload == Payload(MaxHourlyLen, 0, MaxDailyLen, 0)

\* a parsed body that has no "hourly" member: data.hourly is undefined
NoHourly(p) == [current |-> p.current, daily |-> p.daily]

\* what the forecast endpoint can answer: fetch or the body parse throws,
\* a non-success status, or a parsed payload
ForecastThrow == [kind |-> "throw", ok |-> FALSE, data |-> DefaultPayload]
ForecastStatus == [kind |-> "status", ok |-> FALSE, data |-> DefaultPayload]
ForecastOk(p) == [kind |-> "json", ok |-> TRUE, data |-> p]

\* lines 106-167: the outcome of step 2 and 3 for a resolved location
forecastOutcome(loc, resp, currentHourIndex, viewerWestOfUTC) ==
    IF resp.kind = "throw" THEN [thrown |-> "fetch failed", data |-> <<>>]
    ELSE IF ~resp.ok THEN [thrown |-> "Weather API Error", data |-> <<>>]
    ELSE IF "hourly" \notin DOMAIN resp.data
    THEN [thrown |-> "TypeError: hourly is undefined", data |-> <<>>]
    ELSE [thrown |-> "",
          data |-> <<toWeatherData(loc, resp.data, currentHourIndex,
                                   viewerWestOfUTC)>>]

\* lines 60-91: the outcome of step 1 for an input and a geocoding answer
resolveOutcome(input, geoResp) ==
    IF isCoordinatePair(input)
    THEN [thrown |-> "", loc |-> coordinateLocation(input)]
    ELSE LET res == searchCity(input, geoResp)
         IN  IF Len(res) = 0
             THEN [thrown |-> "City not found", loc |-> coordinateLocation(<<"0", ",", "0">>)]
             ELSE [thrown |-> "", loc |-> candidateLocation(res)]

\* getWeatherData as a whole: what the call settles with, given the answers
\* of the two endpoints and the clock
getWeatherData(input, geoResp, forecastResp, currentHourIndex, west) ==
    LET r == resolveOutcome(input, geoResp)
    IN  IF r.thrown # "" THEN [thrown |-> r.thrown, data |-> <<>>]
        ELSE forecastOutcome(r.loc, forecastResp, currentHourIndex, west)

(***************************************************************************)
(* AI enrichment: getQuickSummary, getDeepAnalysis                         *)
(***************************************************************************)
\* line 217: what the quick-summary prompt takes from the snapshot
quickPrompt(weather) ==
    [city |-> weather.city, condition |-> weather.condition,
     currentTemp |-> weather.currentTemp]

\* lines 177-187: what the deep-analysis prompt takes from the snapshot
deepPrompt(weather) ==
    [city |-> weather.city, condition |-> weather.condition,
     currentTemp |-> weather.currentTemp, feelsLike |-> weather.feelsLike,
     humidity |-> weather.humidity, windSpeed |-> weather.windSpeed,
     uvIndex |-> weather.uvIndex, daily |-> weather.daily]

\* the text the provider writes for a prompt
summaryText(prompt) == prompt.condition \o <<" ", "i", "n", " ">> \o prompt.city

\* what generateContent can do for the quick summary: reject, answer
\* without text, or answer with text
QuickResponses == {"reject", "empty", "text"}

\* getQuickSummary lines 213-220: there is no try/catch, so a rejected
\* generateContent rejects the returned promise; otherwise response.text || ""
getQuickSummary(weather, resp) ==
    IF resp = "reject" THEN [rejected |-> TRUE, value |-> <<>>]
    ELSE IF resp = "empty" THEN [rejected |-> FALSE, value |-> <<>>]
    ELSE [rejected |-> FALSE, value |-> summaryText(quickPrompt(weather))]

\* a member of the value JSON.parse returns: absent (reading it gives
\* undefined), a string, or a value of another type
Absent == [present |-> FALSE, string |-> FALSE, text |-> <<>>]
Field(text) == [present |-> TRUE, string |-> TRUE, text |-> text]
NumberField == [present |-> TRUE, string |-> FALSE, text |-> <<>>]

\* what generateContent can do for the deep analysis: reject, answer without
\* text, answer text that is not JSON, answer JSON that is not an object
\* (such as []), answer an object that lacks members, answer an object with
\* a member that is not a string, or answer the full object
DeepResponses ==
    {"reject", "empty", "malformed", "notObject", "partial", "wrongType", "full"}

\* line 206: JSON.parse throws on text that is not JSON, and on nothing else
jsonParseThrows(resp) == resp = "malformed"

\* getDeepAnalysis lines 174-207: JSON.parse(response.text || "{}"), returned
\* as it is, with no check of its shape
getDeepAnalysis(weather, resp) ==
    IF resp = "reject" \/ jsonParseThrows(resp)
    THEN [rejected |-> TRUE,
          value |-> [object |-> FALSE,
                     advice |-> Absent, outfit |-> Absent, details |-> Absent]]
    ELSE IF resp = "empty"
    THEN [rejected |-> FALSE,
          value |-> [object |-> TRUE,
                     advice |-> Absent, outfit |-> Absent, details |-> Absent]]
    ELSE IF resp = "notObject"
    THEN [rejected |-> FALSE,
          value |-> [object |-> FALSE,
                     advice |-> Absent, outfit |-> Absent, details |-> Absent]]
    ELSE IF resp = "partial"
    THEN [rejected |-> FALSE,
          value |-> [object |-> TRUE,
                     advice |-> Field(<<"a", "d", "v", "i", "c", "e", " ", "f", "o", "r", " ">> \o deepPrompt(weather).city),
                     outfit |-> Absent, details |-> Absent]]
    ELSE IF resp = "wrongType"
    THEN [rejected |-> FALSE,
          value |-> [object |-> TRUE,
                     advice  |-> NumberField,
                     outfit  |-> Field(<<"o", "u", "t", "f", "i", "t", " ", "f", "o", "r", " ">> \o deepPrompt(weather).condition),
                     details |-> Field(<<"d", "e", "t", "a", "i", "l", "s", " ", "f", "o", "r", " ">> \o deepPrompt(weather).city)]]
    ELSE [rejected |-> FALSE,
          value |-> [object |-> TRUE,
                     advice  |-> Field(<<"a", "d", "v", "i", "c", "e", " ", "f", "o", "r", " ">> \o deepPrompt(weather).city),
                     outfit  |-> Field(<<"o", "u", "t", "f", "i", "t", " ", "f", "o", "r", " ">> \o deepPrompt(weather).condition),
                     details |-> Field(<<"d", "e", "t", "a", "i", "l", "s", " ", "f", "o", "r", " ">> \o deepPrompt(weather).city)]]

(***************************************************************************)
(* App: theme derivation                                                   *)
(***************************************************************************)
UpperCase == <<"A", "B", "C", "D", "E", "F", "G", "H", "I", "J", "K", "L", "M", "N", "O", "P", "Q", "R", "S", "T", "U", "V", "W", "X", "Y", "Z">>
LowerCase == <<"a", "b", "c", "d", "e", "f", "g", "h", "i", "j", "k", "l", "m", "n", "o", "p", "q", "r", "s", "t", "u", "v", "w", "x", "y", "z">>

lowerChar(c) ==
    IF \E i \in 1..Len(UpperCase) : UpperCase[i] = c
    THEN LowerCase[CHOOSE i \in 1..Len(UpperCase) : UpperCase[i] = c]
    ELSE c

\* String.prototype.toLowerCase
toLowerCase(s) == [i \in 1..Len(s) |-> lowerChar(s[i])]

\* String.prototype.includes for a text needle
includesText(s, t) ==
    \E i \in 1..(Len(s) - Len(t) + 1) : SubSeq(s, i, i + Len(t) - 1) = t

ThemeNight  == "from-slate-900 to-indigo-950"
ThemeRain   == "from-blue-200 via-slate-200 to-gray-100"
ThemeStorm  == "from-slate-400 via-slate-300 to-gray-200"
ThemeCloudy == "from-slate-200 via-gray-100 to-white"
ThemeSnow   == "from-blue-50 via-indigo-50 to-white"
ThemeFog    == "from-gray-200 via-slate-100 to-white"
ThemeClear  == "from-sky-200 via-blue-100 to-white"

\* updateTheme with the snow/ice test moved before the rain/drizzle test
updateThemeSnowFirst(condition, isNight) ==
    LET c == toLowerCase(condition)
    IN  IF isNight THEN ThemeNight
        ELSE IF includesText(c, <<"s", "n", "o", "w">>) \/ includesText(c, <<"i", "c", "e">>)
             THEN ThemeSnow
        ELSE IF includesText(c, <<"r", "a", "i", "n">>) \/ includesText(c, <<"d", "r", "i", "z", "z", "l", "e">>)
             THEN ThemeRain
        ELSE IF includesText(c, <<"s", "t", "o", "r", "m">>) \/ includesText(c, <<"t", "h", "u", "n", "d", "e", "r">>)
             THEN ThemeStorm
        ELSE IF includesText(c, <<"c", "l", "o", "u", "d">>) \/ includesText(c, <<"o", "v", "e", "r", "c", "a", "s", "t">>)
             THEN ThemeCloudy
        ELSE IF includesText(c, <<"f", "o", "g">>) \/ includesText(c, <<"m", "i", "s", "t">>)
             THEN ThemeFog
        ELSE ThemeClear

\* updateTheme lines 40-56: the theme it sets
updateTheme(condition, isNight) ==
    LET c == toLowerCase(condition)
    IN  IF isNight THEN ThemeNight
        ELSE IF includesText(c, <<"r", "a", "i", "n">>) \/ includesText(c, <<"d", "r", "i", "z", "z", "l", "e">>)
             THEN ThemeRain
        ELSE IF includesText(c, <<"s", "t", "o", "r", "m">>) \/ includesText(c, <<"t", "h", "u", "n", "d", "e", "r">>)
             THEN ThemeStorm
        ELSE IF includesText(c, <<"c", "l", "o", "u", "d">>) \/ includesText(c, <<"o", "v", "e", "r", "c", "a", "s", "t">>)
             THEN ThemeCloudy
        ELSE IF includesText(c, <<"s", "n", "o", "w">>) \/ includesText(c, <<"i", "c", "e">>)
             THEN ThemeSnow
        ELSE IF includesText(c, <<"f", "o", "g">>) \/ includesText(c, <<"m", "i", "s", "t">>)
             THEN ThemeFog
        ELSE ThemeClear

\* fetchWeather line 70
nightTime(currentHour) == currentHour < 6 \/ currentHour > 20

(***************************************************************************)
(* Numbers to text: template literals `${lat}, ${lng}`                     *)
(***************************************************************************)
DigitChars == <<"0", "1", "2", "3", "4", "5", "6", "7", "8", "9">>

RECURSIVE natToString(_)
natToString(n) ==
    IF n < 10 THEN <<DigitChars[n + 1]>>
    ELSE natToString(n \div 10) \o <<DigitChars[(n % 10) + 1]>>

\* Number.prototype.toString for the numbers of this model
numToString(x) ==
    (IF x.neg THEN <<"-">> ELSE <<>>)
      \o natToString(x.int)
      \o (IF x.frac = <<>> THEN <<>> ELSE <<".">> \o x.frac)

\* lines 113 and 131
coordsText(pos) ==
    numToString(pos.latitude) \o <<",", " ">> \o numToString(pos.longitude)

(***************************************************************************)
(* One call of getWeatherData                                              *)
(***************************************************************************)
VARIABLES
    locationInput,    \* the argument
    pc,               \* "start", "searching", "fetching", "returned", "thrown"
    lat, lng, city, country,   \* the locals of lines 58
    searchCityCalls,  \* calls of searchCity made by this call
    geoRequests,      \* requests sent to the geocoding endpoint
    forecastRequests, \* requests sent to the forecast endpoint
    searchRes,        \* the candidate list searchCity resolved with
    thrown,           \* message of the error the call rejected with, or ""
    returned,         \* <<WeatherData>> once the call has resolved, else <<>>
    reads,            \* hourly elements read to build the hourly entries
    forecastResponse, \* the forecast endpoint's answer to this call
    clockHour,        \* new Date().getHours() when the payload is mapped
    viewerWestOfUTC   \* the viewer's time zone is west of UTC

gwdVars == <<locationInput, pc, lat, lng, city, country, searchCityCalls,
             geoRequests, forecastRequests, searchRes, thrown, returned, reads,
             forecastResponse, clockHour, viewerWestOfUTC>>

\* the state of the App component
VARIABLES
    weather,        \* useState weather: <<>> for null, else <<snapshot>>, a
                    \* WeatherData (data) made by the query numbered id
    loading,        \* useState loading
    aiLoading,      \* useState aiLoading
    analysis,       \* useState analysis: <<>> for null, else <<result>>
    quickSummary,   \* useState quickSummary: the text, <<>> for ""
    theme,          \* useState theme
    isNightMode,    \* useState isNightMode
    error,          \* useState error: "" for null
    mounted,        \* the initial-load effect has run
    hasGeolocation, \* navigator.geolocation exists
    issued,         \* number of fetchWeather calls made so far
    queries,        \* fetchWeather calls awaiting getWeatherData
    summaries,      \* getQuickSummary calls in flight, each with the id
                    \* of its snapshot and the snapshot itself
    deepCalls,      \* getDeepAnalysis calls in flight, oldest first
    clicks,         \* number of clicks that asked for another location so far
    geoLocating,    \* getCurrentPosition calls in flight
    advisoryTimers, \* pending setTimeout callbacks of line 139
    fallbackArrived, \* history: the snapshot of the call of line 137 was set
    summaryRejected, \* history: a getQuickSummary promise was rejected
    analysisOf,     \* history: id of the snapshot analysis was computed from
    quickSummaryOf  \* history: id of the snapshot quickSummary was written for

appVars == <<weather, loading, aiLoading, analysis, quickSummary, theme,
             isNightMode, error, mounted, hasGeolocation, issued, queries,
             summaries, deepCalls, clicks, geoLocating,
             advisoryTimers, fallbackArrived, summaryRejected, analysisOf,
             quickSummaryOf>>

vars == <<gwdVars, appVars>>

InputAlphabet == {"1", "2", ".", "-", ",", " ", "a"}

RECURSIVE StringsUpTo(_)
StringsUpTo(n) ==
    IF n = 0 THEN {<<>>}
    ELSE LET shorter == StringsUpTo(n - 1)
         IN  shorter \cup {Append(s, c) : s \in shorter, c \in InputAlphabet}

Inputs == StringsUpTo(MaxInputLen)

CoordinateInput == <<"1", ".", "5", ",", " ", "-", "2">>
CityInput == <<"T", "o", "k", "y", "o">>

\* every short input with a well-formed forecast answer, and two fixed inputs
\* with every forecast answer, hour of the day and side of UTC
gwdInit ==
    /\ \/ /\ locationInput \in Inputs
          /\ forecastResponse = ForecastOk(DefaultPayload)
          /\ clockHour = 12
          /\ viewerWestOfUTC = FALSE
       \/ /\ locationInput \in {CoordinateInput, CityInput}
          /\ forecastResponse \in
                {ForecastThrow, ForecastStatus, ForecastOk(NoHourly(DefaultPayload))}
                  \cup {ForecastOk(p) : p \in Payloads}
          /\ clockHour \in 0..23
          /\ viewerWestOfUTC \in BOOLEAN
    /\ pc = "start"
    /\ lat = NaN /\ lng = NaN
    /\ city = locationInput /\ country = <<>>
    /\ searchCityCalls = 0 /\ geoRequests = 0 /\ forecastRequests = 0
    /\ searchRes = <<>>
    /\ thrown = "" /\ returned = <<>> /\ reads = {}

\* lines 58-91 up to the first await: a coordinate pair goes straight to the
\* forecast request, anything else calls searchCity
Resolve ==
    /\ pc = "start"
    /\ IF isCoordinatePair(locationInput)
       THEN LET loc == coordinateLocation(locationInput)
            IN  /\ lat' = loc.lat /\ lng' = loc.lng
                /\ city' = loc.city /\ country' = country
                /\ forecastRequests' = forecastRequests + 1
                /\ pc' = "fetching"
                /\ UNCHANGED <<searchCityCalls, geoRequests>>
       ELSE /\ searchCityCalls' = searchCityCalls + 1
            /\ geoRequests' = geoRequests
                 + (IF searchCitySendsRequest(locationInput) THEN 1 ELSE 0)
            /\ pc' = "searching"
            /\ UNCHANGED <<lat, lng, city, country, forecastRequests>>
    /\ UNCHANGED <<locationInput, searchRes, thrown, returned, reads,
                   forecastResponse, clockHour, viewerWestOfUTC>>
    /\ UNCHANGED appVars

\* lines 76-81 and 85-90: searchCity resolves
SearchCityReturn ==
    /\ pc = "searching"
    /\ \E resp \in GeoResponses :
         LET res == searchCity(locationInput, resp)
         IN  /\ searchRes' = res
             /\ IF Len(res) = 0
                THEN /\ thrown' = "City not found"
                     /\ pc' = "thrown"
                     /\ UNCHANGED <<lat, lng, city, country, forecastRequests>>
                ELSE LET loc == candidateLocation(res)
                     IN  /\ lat' = loc.lat /\ lng' = loc.lng
                         /\ city' = loc.city /\ country' = loc.country
                         /\ forecastRequests' = forecastRequests + 1
                         /\ pc' = "fetching"
                         /\ thrown' = thrown
    /\ UNCHANGED <<locationInput, searchCityCalls, geoRequests, returned,
                   reads, forecastResponse, clockHour, viewerWestOfUTC>>
    /\ UNCHANGED appVars

\* lines 106-167: the forecast request completes
ForecastReturn ==
    /\ pc = "fetching"
    /\ LET loc == [lat |-> lat, lng |-> lng, city |-> city, country |-> country]
           out == forecastOutcome(loc, forecastResponse, clockHour,
                                  viewerWestOfUTC)
       IN  /\ thrown' = out.thrown
           /\ returned' = out.data
           /\ pc' = IF out.thrown = "" THEN "returned" ELSE "thrown"
           /\ reads' = IF out.thrown = ""
                       THEN hourlyElementReads(forecastResponse.data.hourly,
                                               clockHour)
                       ELSE reads
    /\ UNCHANGED <<locationInput, lat, lng, city, country, searchCityCalls,
                   geoRequests, forecastRequests, searchRes, forecastResponse,
                   clockHour, viewerWestOfUTC>>
    /\ UNCHANGED appVars

(***************************************************************************)
(* The App component.  The search box, the suggestion list and the saved   *)
(* places are not modelled: a click on a suggestion or on a saved place is *)
(* a call of fetchWeather with a place name.  Its state is declared with   *)
(* the variables above.                                                    *)
(***************************************************************************)
DefaultLocation == <<"N", "e", "w", " ", "Y", "o", "r", "k">>
Places == {<<"T", "o", "k", "y", "o">>}
DevicePositions ==
    {[latitude |-> Num(FALSE, 40, <<"7", "1">>), longitude |-> Num(TRUE, 74, <<"0", "1">>)]}

FetchFailedMessage == "Failed to fetch weather. Please try again."
DeniedMessage == "Location access denied."
AdvisoryMessage ==
    "Location access needed for local weather. Showing default city."

\* line 142: the timeout option of the initial getCurrentPosition, in ms
InitialGeoTimeout == 8000
\* lines 111-120: getCurrentPosition without options never times out
NoTimeout == 0

\* the answers the endpoints and the clock can give to a query of the App
AppGeoResponses(location) ==
    {GeoThrow, GeoBody(TRUE, <<>>)} \cup {GeoBody(TRUE, <<it>>) :
                       it \in {i \in {ItemTokyo, ItemNewYork} : i.name = location}}
AppForecastResponses ==
    {ForecastThrow, ForecastStatus, ForecastOk(NoHourly(DefaultPayload)),
     ForecastOk(Payload(14, 0, 6, 0))}
AppHours == {12}

appInit ==
    /\ weather = <<>> /\ loading = FALSE /\ aiLoading = FALSE
    /\ analysis = <<>> /\ quickSummary = <<>>
    /\ theme = ThemeClear /\ isNightMode = FALSE /\ error = ""
    /\ mounted = FALSE
    /\ issued = 0 /\ queries = {} /\ summaries = {}
    /\ deepCalls = <<>>
    /\ clicks = 0 /\ geoLocating = {} /\ advisoryTimers = 0
    /\ fallbackArrived = FALSE /\ summaryRejected = FALSE
    /\ analysisOf = 0 /\ quickSummaryOf = 0

\* fetchWeather lines 58-66, up to the await: the state it sets and the call
\* of getWeatherData it leaves in flight.  advise marks the call of line 137,
\* whose completion arms the advisory timer.
fetchWeatherStart(location, advise) ==
    /\ issued' = issued + 1
    /\ queries' = queries \cup
         {[id |-> issued + 1, location |-> location, advise |-> advise]}
    /\ loading' = TRUE
    /\ error' = ""
    /\ analysis' = <<>> /\ analysisOf' = 0

\* lines 125-148: the initial-load effect
InitialLoad ==
    /\ ~mounted
    /\ mounted' = TRUE
    /\ IF hasGeolocation
       THEN /\ loading' = TRUE
            /\ geoLocating' = geoLocating \cup
                 {[n |-> 0, origin |-> "initial", timeout |-> InitialGeoTimeout]}
            /\ UNCHANGED <<issued, queries, error, analysis, analysisOf>>
       ELSE /\ fetchWeatherStart(DefaultLocation, FALSE)
            /\ UNCHANGED geoLocating
    /\ UNCHANGED <<weather, aiLoading, quickSummary, theme, isNightMode,
                   hasGeolocation, summaries, deepCalls, clicks,
                   advisoryTimers, fallbackArrived, summaryRejected, quickSummaryOf>>
    /\ UNCHANGED gwdVars

\* lines 201 and 230: a click on a suggestion or on a saved place
SelectPlace(name) ==
    /\ mounted
    /\ clicks < MaxClicks
    /\ clicks' = clicks + 1
    /\ fetchWeatherStart(name, FALSE)
    /\ UNCHANGED <<weather, aiLoading, quickSummary, theme, isNightMode,
                   mounted, hasGeolocation, summaries, deepCalls,
                   geoLocating, advisoryTimers, fallbackArrived, summaryRejected,
                   quickSummaryOf>>
    /\ UNCHANGED gwdVars

\* handleGeoLocation lines 108-122, up to the callbacks
ClickGeoLocation ==
    /\ mounted
    /\ hasGeolocation
    /\ clicks < MaxClicks
    /\ clicks' = clicks + 1
    /\ loading' = TRUE
    /\ geoLocating' = geoLocating \cup
         {[n |-> clicks + 1, origin |-> "button", timeout |-> NoTimeout]}
    /\ UNCHANGED <<weather, aiLoading, analysis, quickSummary, theme,
                   isNightMode, error, mounted, hasGeolocation, issued, queries,
                   summaries, deepCalls, advisoryTimers, fallbackArrived,
                   summaryRejected, analysisOf, quickSummaryOf>>
    /\ UNCHANGED gwdVars

\* lines 112-115 and 130-133: the success callback of either acquisition
GeoSuccess(r) ==
    /\ r \in geoLocating
    /\ geoLocating' = geoLocating \ {r}
    /\ \E pos \in DevicePositions : fetchWeatherStart(coordsText(pos), FALSE)
    /\ UNCHANGED <<weather, aiLoading, quickSummary, theme, isNightMode,
                   mounted, hasGeolocation, summaries, deepCalls,
                   clicks, advisoryTimers, fallbackArrived, summaryRejected,
                   quickSummaryOf>>
    /\ UNCHANGED gwdVars

\* lines 116-119 and 134-141: the error callback of either acquisition
geoErrorCallback(r) ==
    /\ r \in geoLocating
    /\ geoLocating' = geoLocating \ {r}
    /\ IF r.origin = "initial"
       THEN fetchWeatherStart(DefaultLocation, TRUE)
       ELSE /\ error' = DeniedMessage
            /\ loading' = FALSE
            /\ UNCHANGED <<issued, queries, analysis, analysisOf>>
    /\ UNCHANGED <<weather, aiLoading, quickSummary, theme, isNightMode,
                   mounted, hasGeolocation, summaries, deepCalls,
                   clicks, advisoryTimers, fallbackArrived, summaryRejected,
                   quickSummaryOf>>
    /\ UNCHANGED gwdVars

\* the device refuses or cannot tell the position
GeoDenied(r) == geoErrorCallback(r)

\* the wait exceeds the timeout option; without the option it never does
GeoTimeout(r) ==
    /\ r \in geoLocating
    /\ r.timeout # NoTimeout
    /\ geoErrorCallback(r)

\* what getWeatherData settles with for a location when the endpoints answer
\* g and f, and the hour h at which it does
settlementOf(location, g, f, h) ==
    [hour |-> h, out |-> getWeatherData(location, g, f, h, FALSE)]

\* what getWeatherData can settle with for a location
settlements(location) ==
    {settlementOf(location, g, f, h) :
        g \in AppGeoResponses(location), f \in AppForecastResponses,
        h \in AppHours}

AppLocations ==
    {DefaultLocation} \cup Places \cup {coordsText(pos) : pos \in DevicePositions}

settlementTable == [location \in AppLocations |-> settlements(location)]

\* lines 76-78 with setWeather(null) added to the catch
weatherClearedOnFailure(shown) == <<>>

\* lines 76-78: the catch sets the error and leaves the snapshot shown
weatherAfterFailure(shown) == shown

\* fetchWeather lines 66-80 for a call in flight, and the .then of line 137:
\* getWeatherData settles with s
QuerySettlesWith(q, s) ==
    /\ q \in queries
    /\ queries' = queries \ {q}
    /\ IF s.out.thrown = ""
       THEN /\ weather' = <<[id |-> q.id, data |-> s.out.data[1]]>>
            /\ isNightMode' = nightTime(s.hour)
            /\ theme' = updateTheme(s.out.data[1].condition, nightTime(s.hour))
            /\ summaries' = summaries \cup
                              {[of |-> q.id, weather |-> s.out.data[1]]}
            /\ error' = error
            /\ fallbackArrived' = (fallbackArrived \/ q.advise)
       ELSE /\ error' = FetchFailedMessage
            /\ weather' = weatherAfterFailure(weather)
            /\ UNCHANGED <<isNightMode, theme, summaries, fallbackArrived>>
    /\ loading' = FALSE
    /\ advisoryTimers' = advisoryTimers + (IF q.advise THEN 1 ELSE 0)
    /\ UNCHANGED <<aiLoading, analysis, quickSummary, mounted, hasGeolocation,
                   issued, deepCalls, clicks, geoLocating,
                   summaryRejected, analysisOf, quickSummaryOf>>
    /\ UNCHANGED gwdVars

QuerySettles(q) == \E s \in settlementTable[q.location] : QuerySettlesWith(q, s)

\* line 139: the timer callback
AdvisoryTimerFires ==
    /\ advisoryTimers > 0
    /\ advisoryTimers' = advisoryTimers - 1
    /\ error' = AdvisoryMessage
    /\ UNCHANGED <<weather, loading, aiLoading, analysis, quickSummary, theme,
                   isNightMode, mounted, hasGeolocation, issued, queries,
                   summaries, deepCalls, clicks, geoLocating,
                   fallbackArrived, summaryRejected, analysisOf, quickSummaryOf>>
    /\ UNCHANGED gwdVars

\* line 74: getQuickSummary(data).then(setQuickSummary) settles; a rejection
\* has no handler and sets nothing
SummarySettles(s) ==
    /\ s \in summaries
    /\ summaries' = summaries \ {s}
    /\ \E resp \in QuickResponses :
         LET r == getQuickSummary(s.weather, resp)
         IN  /\ summaryRejected' = (summaryRejected \/ r.rejected)
             /\ IF r.rejected
                THEN UNCHANGED <<quickSummary, quickSummaryOf>>
                ELSE /\ quickSummary' = r.value
                     /\ quickSummaryOf' = s.of
    /\ UNCHANGED <<weather, loading, aiLoading, analysis, theme, isNightMode,
                   error, mounted, hasGeolocation, issued, queries, deepCalls, clicks, geoLocating, advisoryTimers, fallbackArrived,
                   analysisOf>>
    /\ UNCHANGED gwdVars

\* lines 243-249 and 316: the Analyze button is rendered
analyzeButtonRendered == ~loading /\ weather # <<>> /\ analysis = <<>>

\* line 319 without the disabled attribute
analyzeButtonNeverDisabled == FALSE

\* line 319: disabled={aiLoading}
analyzeButtonDisabled == aiLoading

\* handleDeepAnalysis lines 95-99, up to the await
ClickAnalyze ==
    /\ analyzeButtonRendered
    /\ ~analyzeButtonDisabled
    /\ weather # <<>>
    /\ aiLoading' = TRUE
    /\ deepCalls' = Append(deepCalls, [of |-> weather[1].id,
                                       weather |-> weather[1].data])
    /\ UNCHANGED <<weather, loading, analysis, quickSummary, theme,
                   isNightMode, error, mounted, hasGeolocation, issued, queries,
                   summaries, clicks, geoLocating, advisoryTimers, fallbackArrived,
                   summaryRejected, analysisOf, quickSummaryOf>>
    /\ UNCHANGED gwdVars

\* handleDeepAnalysis lines 99-105: getDeepAnalysis settles, the provider
\* having answered resp
DeepSettlesWith(i, resp) ==
    /\ i \in 1..Len(deepCalls)
    /\ deepCalls' = SubSeq(deepCalls, 1, i - 1)
                       \o SubSeq(deepCalls, i + 1, Len(deepCalls))
    /\ LET r == getDeepAnalysis(deepCalls[i].weather, resp)
       IN  IF r.rejected
           THEN UNCHANGED <<analysis, analysisOf>>
           ELSE /\ analysis' = <<r.value>>
                /\ analysisOf' = deepCalls[i].of
    /\ aiLoading' = FALSE
    /\ UNCHANGED <<weather, loading, quickSummary, theme, isNightMode, error,
                   mounted, hasGeolocation, issued, queries, summaries,
                   clicks, geoLocating, advisoryTimers, fallbackArrived,
                   summaryRejected, quickSummaryOf>>
    /\ UNCHANGED gwdVars

DeepSettles(i) == \E resp \in DeepResponses : DeepSettlesWith(i, resp)

\* the words updateTheme looks for, lines 50-54
ThemeWords ==
    {<<"r", "a", "i", "n">>, <<"d", "r", "i", "z", "z", "l", "e">>, <<"s", "t", "o", "r", "m">>, <<"t", "h", "u", "n", "d", "e", "r">>, <<"c", "l", "o", "u", "d">>, <<"o", "v", "e", "r", "c", "a", "s", "t">>,
     <<"s", "n", "o", "w">>, <<"i", "c", "e">>, <<"f", "o", "g">>, <<"m", "i", "s", "t">>}

\* condition labels a snapshot can carry: those of the WMO table, "Unknown",
\* texts without any of the words, and every text made of two of the words
ConditionLabels ==
    {wmoMap(code) : code \in WmoCodes} \cup
    {Unknown, <<>>, <<"S", "u", "n", "n", "y">>, <<"H", "E", "A", "V", "Y", " ", "R", "A", "I", "N">>, <<"B", "l", "a", "c", "k", " ", "I", "c", "e">>} \cup
    {w1 \o <<" ">> \o w2 : w1 \in ThemeWords, w2 \in ThemeWords}

\* the hours new Date().getHours() can give
ClockHours == 0..23

\* a snapshot with the given condition label
snapshotWith(label) ==
    [toWeatherData(candidateLocation(searchCity(DefaultLocation,
                                                GeoBody(TRUE, <<ItemNewYork>>))),
                   DefaultPayload, 0, FALSE)
       EXCEPT !.condition = label]

\* fetchWeather lines 66-80: getWeatherData returns a snapshot with any
\* condition label, at any hour
ThemeSettle ==
    \E q \in queries, label \in ConditionLabels, h \in ClockHours :
        QuerySettlesWith(q, [hour |-> h,
                             out |-> [thrown |-> "",
                                      data |-> <<snapshotWith(label)>>]])

(***************************************************************************)
(* Specifications                                                          *)
(***************************************************************************)
\* the App before it is mounted, while a single getWeatherData call is studied
appIdle == appInit /\ hasGeolocation = TRUE

\* no getWeatherData call under study, while the App is studied
gwdIdle ==
    /\ locationInput = <<>> /\ pc = "idle"
    /\ lat = NaN /\ lng = NaN /\ city = <<>> /\ country = <<>>
    /\ searchCityCalls = 0 /\ geoRequests = 0 /\ forecastRequests = 0
    /\ searchRes = <<>> /\ thrown = "" /\ returned = <<>> /\ reads = {}
    /\ forecastResponse = ForecastStatus /\ clockHour = 0
    /\ viewerWestOfUTC = FALSE

\* one call of getWeatherData, for every input and endpoint answer
InitGWD == gwdInit /\ appIdle
NextGWD ==
    \/ Resolve
    \/ SearchCityReturn
    \/ ForecastReturn
SpecGWD == InitGWD /\ [][NextGWD]_vars

\* the App, from before its first render
Init == appInit /\ hasGeolocation \in BOOLEAN /\ gwdIdle
Next ==
    \/ InitialLoad
    \/ \E name \in Places : SelectPlace(name)
    \/ ClickGeoLocation
    \/ \E r \in geoLocating : GeoSuccess(r)
    \/ \E r \in geoLocating : GeoDenied(r)
    \/ \E r \in geoLocating : GeoTimeout(r)
    \/ \E q \in queries : QuerySettles(q)
    \/ AdvisoryTimerFires
    \/ \E s \in summaries : SummarySettles(s)
    \/ ClickAnalyze
    \/ \E i \in 1..Len(deepCalls) : DeepSettles(i)
Spec == Init /\ [][Next]_vars

\* the first query of the App, settling with every condition label at every
\* hour: updateTheme over all its inputs
InitTheme == appInit /\ hasGeolocation = FALSE /\ gwdIdle
NextTheme ==
    \/ InitialLoad
    \/ ThemeSettle
SpecTheme == InitTheme /\ [][NextTheme]_vars

(***************************************************************************)
(* Properties                                                              *)
(***************************************************************************)
\* a text that is, in full, a decimal number: optional sign, digits with at
\* most one point, at least one digit
isFloatText(s) ==
    LET t == trim(s)
        u == IF t # <<>> /\ Head(t) \in {"+", "-"} THEN Tail(t) ELSE t
    IN  /\ u # <<>>
        /\ \A i \in 1..Len(u) : u[i] \in Digits \cup {"."}
        /\ Cardinality({i \in 1..Len(u) : u[i] = "."}) <= 1
        /\ \E i \in 1..Len(u) : u[i] \in Digits

\* the number such a text denotes
floatValue(s) ==
    LET t   == trim(s)
        neg == Head(t) = "-"
        u   == IF Head(t) \in {"+", "-"} THEN Tail(t) ELSE t
        dot == IF includes(u, ".")
               THEN CHOOSE i \in 1..Len(u) : u[i] = "."
               ELSE Len(u) + 1
    IN  Num(neg, DigitsToInt(SubSeq(u, 1, dot - 1)), SubSeq(u, dot + 1, Len(u)))

\* an input of the form "<float>, <float>"
isFloatPairText(input) ==
    LET raw == split(input, ",")
    IN  Len(raw) = 2 /\ isFloatText(raw[1]) /\ isFloatText(raw[2])

\* C1: an input of the form "<float>, <float>" is resolved without any call
\* of searchCity and without any geocoding request, the two numbers become
\* latitude and longitude, and the WeatherData returned has the city
\* "Current Location".
C1_CoordinatePairSkipsGeocoding ==
    isFloatPairText(locationInput) =>
        /\ searchCityCalls = 0 /\ geoRequests = 0 /\ pc # "searching"
        /\ pc \in {"fetching", "returned", "thrown"} =>
              /\ lat = floatValue(split(locationInput, ",")[1])
              /\ lng = floatValue(split(locationInput, ",")[2])
        /\ pc = "returned" => returned[1].city = CurrentLocation

\* C1 witness: a call with a coordinate pair of two different numbers has
\* returned its WeatherData.
C1_Witness ==
    /\ pc = "returned"
    /\ isFloatPairText(locationInput)
    /\ lat # lng
    /\ forecastRequests = 1
    /\ returned[1].city = CurrentLocation

\* C2: an input that is not a numeric coordinate pair makes getWeatherData
\* call searchCity; the call fails with "City not found" exactly when the
\* candidate list is empty, and otherwise the first candidate's name, region
\* and coordinates are used.
C2_NonCoordinateInputIsGeocoded ==
    (~isFloatPairText(locationInput) /\ pc # "start") =>
        /\ searchCityCalls = 1
        /\ pc # "searching" =>
              /\ (thrown = "City not found") <=> (Len(searchRes) = 0)
              /\ Len(searchRes) > 0 =>
                    /\ city = searchRes[1].name
                    /\ country = searchRes[1].location
                    /\ lat = searchRes[1].lat /\ lng = searchRes[1].lng
                    /\ pc = "returned" => returned[1].city = searchRes[1].name

\* C3: an input with a comma is taken as a coordinate pair only if both of
\* its first two segments are, in full, decimal numbers; otherwise the whole
\* input goes to searchCity.
C3_OnlyFullNumbersAreCoordinates ==
    (includes(locationInput, ",") /\ pc # "start") =>
        LET raw == split(locationInput, ",")
        IN  ~(isFloatText(raw[1]) /\ isFloatText(raw[2])) =>
               searchCityCalls = 1

\* the length of one of the hourly arrays
hourlyArrayLen(hourly, name) ==
    IF name = "time" THEN Len(hourly.time) ELSE Len(hourly.temperature_2m)

\* C4: the hourly window starts at the current hour, holds consecutive source
\* entries in order, has at most min(24, len(source) - hour) entries (none
\* when the hour is past the end), and no hourly array is read at an index
\* past its end.
C4_HourlyWindowWithinSource ==
    pc = "returned" =>
        LET src == forecastResponse.data.hourly
            res == returned[1].hourly
        IN  /\ Len(res) <= Min2(HourlyWindow, Max2(0, Len(src.time) - clockHour))
            /\ \A j \in 1..Len(res) :
                  /\ res[j].time = hourLabel(at(src.time, clockHour + j - 1))
                  /\ res[j].temp = MathRound(at(src.temperature_2m,
                                               clockHour + j - 1))
            /\ \A r \in reads : r[2] < hourlyArrayLen(src, r[1])

\* every daily array of the payload has at least n entries
dailyHasAtLeast(daily, n) ==
    /\ Len(daily.time) >= n /\ Len(daily.weather_code) >= n
    /\ Len(daily.temperature_2m_max) >= n /\ Len(daily.temperature_2m_min) >= n

\* C5: when the daily series has at least 5 entries, the snapshot's daily
\* forecast has exactly 5 entries and entry k comes from source index k, for
\* k = 0..4, at every hour of the day.
C5_DailyIsFirstFive ==
    (pc = "returned" /\ dailyHasAtLeast(forecastResponse.data.daily, 5)) =>
        LET src == forecastResponse.data.daily
            res == returned[1].daily
        IN  /\ Len(res) = 5
            /\ \A k \in 1..5 :
                  /\ res[k].day = weekdayLabel(Def(src.time[k]), viewerWestOfUTC)
                  /\ res[k].high =
                       [nan |-> FALSE, n |-> (src.temperature_2m_max[k] + 5) \div 10]
                  /\ res[k].low =
                       [nan |-> FALSE, n |-> (src.temperature_2m_min[k] + 5) \div 10]
                  /\ res[k].condition = wmoToCondition(Def(src.weather_code[k]))

\* C5 witness: a call made at 23 o'clock has returned a snapshot from a
\* payload with more than 5 daily entries.
C5_Witness ==
    /\ pc = "returned"
    /\ clockHour = 23
    /\ Len(forecastResponse.data.daily.time) > 5
    /\ dailyHasAtLeast(forecastResponse.data.daily, 5)
    /\ Len(returned[1].daily) = 5

\* C6: at most one getDeepAnalysis call is in flight at any time, and one is
\* in flight exactly while aiLoading is set, which disables the button that
\* triggers it.
C6_SingleDeepAnalysisInFlight ==
    /\ Len(deepCalls) <= 1
    /\ aiLoading <=> deepCalls # <<>>

\* C6 witness: a deep analysis is pending while a newer snapshot is shown
\* with its Analyze button rendered.
C6_Witness ==
    /\ aiLoading
    /\ analyzeButtonRendered
    /\ \E i \in 1..Len(deepCalls) : deepCalls[i].of # weather[1].id

\* C7: a snapshot is put into the visible state only by the query that is
\* the most recently issued one when it completes.
C7_OnlyLatestQueryIsApplied ==
    [][weather' # weather => weather'[1].id = issued]_vars

\* C8: the location advisory is visible only after the snapshot of the
\* fallback query for the default location has been put into the visible
\* state.
C8_AdvisoryAfterFallbackSnapshot ==
    error = AdvisoryMessage => (fallbackArrived /\ weather # <<>>)

\* C9: every getCurrentPosition call waits with a timeout, and every such
\* call that ends is followed at once by a weather query: for the position
\* on success, for the default location on denial or timeout.
C9_GeolocationTimesOutAndFallsBack ==
    /\ [](\A r \in geoLocating : r.timeout # NoTimeout)
    /\ [][(geoLocating' # geoLocating /\ geoLocating' \subseteq geoLocating)
            => \E q \in queries' \ queries :
                  q.location \in {DefaultLocation}
                       \cup {coordsText(pos) : pos \in DevicePositions}]_vars

\* C10: a failing quick-summary request gives its caller the empty string,
\* never a rejected promise, and the step in which it settles leaves the
\* snapshot, the loading flag and the error unchanged.
C10_SummaryFailureYieldsEmptyString ==
    /\ [](~summaryRejected)
    /\ [][summaries' # summaries /\ summaries' \subseteq summaries
            => UNCHANGED <<weather, loading, error>>]_vars


\* the provider answers that cannot be parsed as the schema's shape, an
\* object with the members advice, outfit and details: text that is not
\* JSON, and JSON that is not an object
UnparseableResponses == {"malformed", "notObject"}

\* C11: when the deep-analysis provider answers something that cannot be
\* parsed as the schema's shape, getDeepAnalysis fails, and the step in which
\* the caller handles it leaves analysis null as it was, clears aiLoading and
\* changes neither the snapshot nor the error.
C11_UnparseableAnalysisLeavesPanelEmpty ==
    [][\A i \in 1..Len(deepCalls) : \A resp \in UnparseableResponses :
          DeepSettlesWith(i, resp) =>
              /\ getDeepAnalysis(deepCalls[i].weather, resp).rejected
              /\ analysis = <<>> /\ analysis' = <<>>
              /\ ~aiLoading'
              /\ UNCHANGED <<weather, error>>]_vars

\* C12: when getWeatherData fails for a query (no geocoding match, a
\* non-success status, a body that cannot be parsed or normalised), the step
\* in which fetchWeather handles the failure ends the query, sets the one
\* fetch-failed message, clears loading and leaves the displayed snapshot and
\* its summary requests as they were.
C12_FailedQueryKeepsSnapshot ==
    [][\A q \in queries \ queries' :
          (\E g \in AppGeoResponses(q.location), f \in AppForecastResponses,
              h \in AppHours :
              LET s == settlementOf(q.location, g, f, h)
              IN  s.out.thrown # "" /\ QuerySettlesWith(q, s)) =>
              /\ error' = FetchFailedMessage
              /\ ~loading'
              /\ weather' = weather
              /\ summaries' = summaries]_vars

\* C12 witness: a query has failed while an earlier snapshot is displayed,
\* which stays displayed with the fetch-failed message.
C12_Witness ==
    /\ error = FetchFailedMessage
    /\ ~loading
    /\ weather # <<>>
    /\ issued > weather[1].id
    /\ queries = {}

\* the number of entries all the daily arrays of a payload have
dailyAvailable(daily) ==
    Min2(Min2(Len(daily.time), Len(daily.weather_code)),
         Min2(Len(daily.temperature_2m_max), Len(daily.temperature_2m_min)))

\* C13: for every parsed payload getWeatherData returns a snapshot, whose
\* daily series holds the first 5 entries that all daily arrays have, or
\* fewer when they have fewer, and none of whose hourly or daily entries is
\* built from a missing element.
C13_NormalizationTruncatesNeverFails ==
    (/\ pc \in {"returned", "thrown"}
     /\ forecastRequests = 1
     /\ forecastResponse.kind = "json" /\ forecastResponse.ok) =>
        /\ pc = "returned"
        /\ Len(returned[1].daily) =
             Min2(DailyCount, dailyAvailable(forecastResponse.data.daily))
        /\ \A k \in 1..Len(returned[1].daily) :
              /\ returned[1].daily[k].day.valid
              /\ ~returned[1].daily[k].high.nan
              /\ ~returned[1].daily[k].low.nan
        /\ \A j \in 1..Len(returned[1].hourly) :
              /\ returned[1].hourly[j].time.valid
              /\ ~returned[1].hourly[j].temp.nan

\* C14: an analysis result that getDeepAnalysis returned for a parsed object
\* has its three members advice, outfit and details present as strings (the
\* empty string standing in for a member the provider left out or gave
\* another type).
C14_AnalysisFieldsAreStrings ==
    (analysis # <<>> /\ analysis[1].object) =>
        /\ analysis[1].advice.present /\ analysis[1].advice.string
        /\ analysis[1].outfit.present /\ analysis[1].outfit.string
        /\ analysis[1].details.present /\ analysis[1].details.string

\* r is an integer and the nearest one to the payload value x, which is in
\* tenths
isNearestInteger(r, x) ==
    /\ ~x.undef
    /\ ~r.nan
    /\ (10 * r.n - x.v) \in -5..5

\* C15: every number of a returned snapshot is an integer, the nearest one to
\* its source value: currentTemp, feelsLike, humidity, windSpeed, pressure,
\* uvIndex, the temp of each hourly entry and the high and low of each daily
\* entry.
C15_DisplayValuesAreRounded ==
    pc = "returned" =>
        LET src == forecastResponse.data
            res == returned[1]
        IN  /\ isNearestInteger(res.currentTemp, Def(src.current.temperature_2m))
            /\ isNearestInteger(res.feelsLike, Def(src.current.apparent_temperature))
            /\ res.humidity % 10 = 0
            /\ (res.humidity - src.current.relative_humidity_2m) \in -5..5
            /\ isNearestInteger(res.windSpeed, Def(src.current.wind_speed_10m))
            /\ isNearestInteger(res.pressure, Def(src.current.surface_pressure))
            /\ isNearestInteger(res.uvIndex, at(src.daily.uv_index_max, 0))
            /\ \A j \in 1..Len(res.hourly) :
                  isNearestInteger(res.hourly[j].temp,
                                   at(src.hourly.temperature_2m, clockHour + j - 1))
            /\ \A k \in 1..Len(res.daily) :
                  /\ isNearestInteger(res.daily[k].high,
                                      at(src.daily.temperature_2m_max, k - 1))
                  /\ isNearestInteger(res.daily[k].low,
                                      at(src.daily.temperature_2m_min, k - 1))

\* the classes of condition words in their priority order, each with its theme
ThemeClasses ==
    << [words |-> {<<"r", "a", "i", "n">>, <<"d", "r", "i", "z", "z", "l", "e">>},   theme |-> ThemeRain],
       [words |-> {<<"s", "t", "o", "r", "m">>, <<"t", "h", "u", "n", "d", "e", "r">>},  theme |-> ThemeStorm],
       [words |-> {<<"c", "l", "o", "u", "d">>, <<"o", "v", "e", "r", "c", "a", "s", "t">>}, theme |-> ThemeCloudy],
       [words |-> {<<"s", "n", "o", "w">>, <<"i", "c", "e">>},       theme |-> ThemeSnow],
       [words |-> {<<"f", "o", "g">>, <<"m", "i", "s", "t">>},       theme |-> ThemeFog] >>

\* the classes that have a word occurring in the lowercased label
firstMatchingClass(label) ==
    LET matching == {i \in 1..Len(ThemeClasses) :
                        \E w \in ThemeClasses[i].words :
                            includesText(toLowerCase(label), w)}
    IN  IF matching = {} THEN 0
        ELSE CHOOSE i \in matching : \A j \in matching : i <= j

expectedTheme(label, isNight) ==
    IF isNight THEN ThemeNight
    ELSE IF firstMatchingClass(label) = 0 THEN ThemeClear
    ELSE ThemeClasses[firstMatchingClass(label)].theme

\* C16: the theme set for a snapshot is the night theme when isNight is set,
\* whatever the label; otherwise the theme of the first class, in the order
\* rain/drizzle, storm/thunder, cloud/overcast, snow/ice, fog/mist, with a
\* word in the lowercased label, and the clear theme when there is none.  By
\* day "Heavy Rain" and "Thunderstorm" get a theme other than the night one.
C16_ThemeIsFirstMatchingClass ==
    weather # <<>> =>
        /\ theme = expectedTheme(weather[1].data.condition, isNightMode)
        /\ (~isNightMode /\ weather[1].data.condition
                              \in {<<"H", "e", "a", "v", "y", " ", "R", "a", "i", "n">>, <<"T", "h", "u", "n", "d", "e", "r", "s", "t", "o", "r", "m">>})
              => theme # ThemeNight

\* C16 witness: by day a label with words of two classes ("Snow Grains" has
\* "snow" and "rain") has got the theme of the class that comes first.
C16_Witness ==
    /\ weather # <<>>
    /\ ~isNightMode
    /\ weather[1].data.condition = <<"S", "n", "o", "w", " ", "G", "r", "a", "i", "n", "s">>
    /\ theme = ThemeRain

\* the translation table of weather codes, as pairs of code and label
WmoLabels ==
    { <<0, <<"C", "l", "e", "a", "r", " ", "S", "k", "y">>>>, <<1, <<"M", "a", "i", "n", "l", "y", " ", "C", "l", "e", "a", "r">>>>, <<2, <<"P", "a", "r", "t", "l", "y", " ", "C", "l", "o", "u", "d", "y">>>>,
      <<3, <<"O", "v", "e", "r", "c", "a", "s", "t">>>>, <<45, <<"F", "o", "g">>>>, <<48, <<"D", "e", "p", "o", "s", "i", "t", "i", "n", "g", " ", "R", "i", "m", "e", " ", "F", "o", "g">>>>,
      <<51, <<"L", "i", "g", "h", "t", " ", "D", "r", "i", "z", "z", "l", "e">>>>, <<53, <<"M", "o", "d", "e", "r", "a", "t", "e", " ", "D", "r", "i", "z", "z", "l", "e">>>>,
      <<55, <<"D", "e", "n", "s", "e", " ", "D", "r", "i", "z", "z", "l", "e">>>>, <<56, <<"L", "i", "g", "h", "t", " ", "F", "r", "e", "e", "z", "i", "n", "g", " ", "D", "r", "i", "z", "z", "l", "e">>>>,
      <<57, <<"D", "e", "n", "s", "e", " ", "F", "r", "e", "e", "z", "i", "n", "g", " ", "D", "r", "i", "z", "z", "l", "e">>>>, <<61, <<"S", "l", "i", "g", "h", "t", " ", "R", "a", "i", "n">>>>,
      <<63, <<"M", "o", "d", "e", "r", "a", "t", "e", " ", "R", "a", "i", "n">>>>, <<65, <<"H", "e", "a", "v", "y", " ", "R", "a", "i", "n">>>>,
      <<66, <<"L", "i", "g", "h", "t", " ", "F", "r", "e", "e", "z", "i", "n", "g", " ", "R", "a", "i", "n">>>>, <<67, <<"H", "e", "a", "v", "y", " ", "F", "r", "e", "e", "z", "i", "n", "g", " ", "R", "a", "i", "n">>>>,
      <<71, <<"S", "l", "i", "g", "h", "t", " ", "S", "n", "o", "w">>>>, <<73, <<"M", "o", "d", "e", "r", "a", "t", "e", " ", "S", "n", "o", "w">>>>, <<75, <<"H", "e", "a", "v", "y", " ", "S", "n", "o", "w">>>>,
      <<77, <<"S", "n", "o", "w", " ", "G", "r", "a", "i", "n", "s">>>>, <<80, <<"S", "l", "i", "g", "h", "t", " ", "R", "a", "i", "n", " ", "S", "h", "o", "w", "e", "r", "s">>>>,
      <<81, <<"M", "o", "d", "e", "r", "a", "t", "e", " ", "R", "a", "i", "n", " ", "S", "h", "o", "w", "e", "r", "s">>>>, <<82, <<"V", "i", "o", "l", "e", "n", "t", " ", "R", "a", "i", "n", " ", "S", "h", "o", "w", "e", "r", "s">>>>,
      <<85, <<"S", "l", "i", "g", "h", "t", " ", "S", "n", "o", "w", " ", "S", "h", "o", "w", "e", "r", "s">>>>, <<86, <<"H", "e", "a", "v", "y", " ", "S", "n", "o", "w", " ", "S", "h", "o", "w", "e", "r", "s">>>>,
      <<95, <<"T", "h", "u", "n", "d", "e", "r", "s", "t", "o", "r", "m">>>>, <<96, <<"T", "h", "u", "n", "d", "e", "r", "s", "t", "o", "r", "m", " ", "w", "i", "t", "h", " ", "H", "a", "i", "l">>>>,
      <<99, <<"H", "e", "a", "v", "y", " ", "T", "h", "u", "n", "d", "e", "r", "s", "t", "o", "r", "m", " ", "w", "i", "t", "h", " ", "H", "a", "i", "l">>>> }

\* the label the table gives a payload value: that of its pair, "Unknown" for
\* a code without a pair and for a missing value
labelOf(x) ==
    IF ~x.undef /\ \E p \in WmoLabels : p[1] = x.v
    THEN (CHOOSE p \in WmoLabels : p[1] = x.v)[2]
    ELSE <<"U", "n", "k", "n", "o", "w", "n">>

\* C17: the condition of a returned snapshot, and of each of its daily
\* entries, is the table's label of the source weather code, which is never
\* "Unknown" for a code of the table (code 0 gives "Clear Sky"), and is
\* "Unknown" for any other code; the call does not fail on such a code.
C17_CodeTranslationFollowsTable ==
    (/\ pc \in {"returned", "thrown"} /\ forecastRequests = 1
     /\ forecastResponse.kind = "json" /\ forecastResponse.ok
     /\ "hourly" \in DOMAIN forecastResponse.data) =>
        LET src == forecastResponse.data
        IN  /\ pc = "returned"
            /\ returned[1].condition = labelOf(Def(src.current.weather_code))
            /\ \A k \in 1..Len(returned[1].daily) :
                  returned[1].daily[k].condition
                    = labelOf(at(src.daily.weather_code, k - 1))
            /\ \A p \in WmoLabels : p[2] # <<"U", "n", "k", "n", "o", "w", "n">>
            /\ src.current.weather_code = 0
                  => returned[1].condition = <<"C", "l", "e", "a", "r", " ", "S", "k", "y">>

\* C17 witness: a snapshot has been returned for a payload whose current
\* weather code is 0, and one of whose daily codes is not in the table.
C17_Witness ==
    /\ pc = "returned"
    /\ forecastResponse.data.current.weather_code = 0
    /\ \E k \in 1..5 : /\ k <= Len(forecastResponse.data.daily.weather_code)
                       /\ forecastResponse.data.daily.weather_code[k] \notin WmoCodes
                       /\ returned[1].daily[k].condition = Unknown

\* C18: whenever the main view shows a snapshot with an analysis result, the
\* result was computed from that snapshot.
C18_AnalysisBelongsToSnapshot ==
    (~loading /\ weather # <<>> /\ analysis # <<>>) =>
        analysisOf = weather[1].id

\* C19: whenever the main view shows a snapshot with a non-empty quick
\* summary, the summary was generated from that snapshot.
C19_SummaryBelongsToSnapshot ==
    (~loading /\ weather # <<>> /\ quickSummary # <<>>) =>
        quickSummaryOf = weather[1].id
====
